---- MODULE Spec2Model ----
(***************************************************************************)
(* The asynchronous job lifecycle of the SnipX Features page               *)
(* (src/src/pages/Features.tsx; src/unnamed/part_000 shares uploadVideo    *)
(* and startStatusCheck verbatim): file selection, upload with its         *)
(* simulated progress ramp, the status poller, and the per-feature         *)
(* processing runs with their ramps; and the subtitle track of             *)
(* src/unnamed/part_000: its staged generation, its SRT text and the cue   *)
(* lookup of the player.                                                   *)
(*                                                                         *)
(* The page is single-threaded: every action below is one run of an event  *)
(* handler, of a timer callback, or of the continuation of an awaited      *)
(* request, from its start to its next await.  Requests in flight and      *)
(* armed intervals are part of the state; the backend (ApiService) is the  *)
(* environment: it answers a request with arbitrary delay, so responses    *)
(* to independent requests may arrive in any order.                        *)
(***************************************************************************)
EXTENDS Integers, FiniteSets, Sequences, TLC

\* ---------------------------------------------------------------- bounds
\* Number of files the user selects in one behaviour.
MaxSelect == 2
\* Number of getVideoStatus requests issued in one behaviour of Spec.
MaxFetch == 3
\* Number of processVideo invocations in one behaviour of Spec.
MaxRuns == 1
\* The same two bounds for a behaviour of SpecProc, which starts after the
\* upload and runs several features side by side.
MaxProcFetch == 2
MaxProcRuns == 2

\* ------------------------------------------------------- program constants
\* Math.min(prev + Math.random() * 15, 95): the cap of the upload ramp.
UploadCap == 95
\* setUploadProgress(100) when the response arrives.
UploadDone == 100
\* if (progress >= 100): the end of a processing ramp.
RampEnd == 100

\* Math.random() * 15 lies in [0, 15): the increments the model draws.
UploadIncrements == {0, 14}
\* Math.random() * 10 lies in [0, 10): the increments the model draws.
RampIncrements == {0, 9}

\* The five ProgressState hooks, named by their feature.
Features == {"audio", "subtitles", "summarization", "enhancement", "thumbnail"}

\* The third argument each handler passes to processVideo.
successMessage(f) ==
    CASE f = "audio" -> "Audio processing completed successfully"
      [] f = "subtitles" -> "Subtitles generated successfully"
      [] f = "summarization" -> "Video summarized successfully"
      [] f = "enhancement" -> "Video enhancement completed successfully"
      [] f = "thumbnail" -> "Thumbnail generated successfully"

\* useState<ProgressState>({ visible: false, percentage: 0, status: '' })
InitialProgress == [visible |-> FALSE, percentage |-> 0, status |-> ""]

\* The job statuses the backend reports, and the two that end a job.
Terminal == {"completed", "failed"}

\* null, for the states that hold an id, a handle or an object.
Null == 0
NoData == [id |-> 0, status |-> "null", req |-> 0]
NoSubtitles == [language |-> "", cues |-> <<>>, srt |-> <<>>]

VARIABLES
    selectedFile,            \* 0 (null) or k: the k-th file the user selected
    uploadedVideoId,         \* 0 (null) or the video_id of the last upload response
    videoData,               \* NoData (null) or the last status response stored
    isUploading,
    uploadProgress,
    progress,                \* feature -> ProgressState
    consoleLogs,             \* entries per level (the list is append-only)
    statusCheckIntervalRef,  \* 0 (null) or the handle of a poll interval
    uploadTimers,            \* armed upload-ramp intervals, by upload
    uploadRequests,          \* ApiService.uploadVideo requests in flight
    pollTimers,              \* armed poll intervals: [h, videoId]
    statusRequests,          \* getVideoStatus requests in flight
    processRequests,         \* ApiService.processVideo requests in flight
    rampTimers,              \* armed processing ramps and their closure
    backendStatus,           \* the backend's status of each job
    nextReq, nextPoller, nextRun,
    limits,                  \* the bounds of the specification being checked
    mounted,                 \* the Features view is mounted
    toastUploadFirst,        \* toast.error('Please upload a video first') was raised
    subtitleData,            \* NoSubtitles (null) or [language, cues, srt]
    currentSubtitle,         \* the caption the last lookup resolved
    showSubtitles,
    subtitleLanguage,        \* the language selected for the next generation
    isGeneratingSubtitles,
    subtitleRuns,            \* generateAdvancedSubtitles runs between two awaits
    currentTime,             \* the playback time of the last time update, in ms
    videoSrc,                \* 0 (null) or the object URL created for the k-th file
    liveUrls,                \* the object URLs created and not revoked
    srtTime,                 \* the last formatSRTTime call: [seconds (in ms), text]
    thumbnailFrames,         \* thumbnailFrames.length
    frameTimers,             \* the pending timeouts of simulateThumbnailFrameGeneration
    selectedFrameIndex,      \* 0 (null) or selectedFrameIndex + 1, the number of the frame
    generatedThumbnail,      \* 0 (null) or the frame number in the generated URL
    downloadedFile           \* the last file downloadSubtitles saved: [language, srt]

vars == <<selectedFile, uploadedVideoId, videoData, isUploading, uploadProgress,
          progress, consoleLogs, statusCheckIntervalRef, uploadTimers,
          uploadRequests, pollTimers, statusRequests, processRequests,
          rampTimers, backendStatus, nextReq, nextPoller, nextRun, limits,
          mounted, toastUploadFirst, subtitleData, currentSubtitle, showSubtitles,
          subtitleLanguage, isGeneratingSubtitles, subtitleRuns, currentTime,
          videoSrc, liveUrls, srtTime, thumbnailFrames, frameTimers,
          selectedFrameIndex, generatedThumbnail, downloadedFile>>

\* The variables each group of handlers leaves alone.
uploadVars == <<selectedFile, videoSrc, liveUrls, uploadedVideoId, isUploading,
                uploadProgress, uploadTimers, uploadRequests>>
pollVars == <<statusCheckIntervalRef, pollTimers, statusRequests, nextReq, nextPoller>>
processVars == <<progress, processRequests, rampTimers, nextRun>>
subtitleVars == <<subtitleData, currentSubtitle, showSubtitles, subtitleLanguage,
                  isGeneratingSubtitles, subtitleRuns, currentTime>>
\* What the handlers of the job lifecycle never touch.
thumbnailVars == <<thumbnailFrames, frameTimers, selectedFrameIndex, generatedThumbnail>>
otherVars == <<limits, srtTime, thumbnailVars, downloadedFile, mounted, toastUploadFirst,
               subtitleVars>>

\* logToConsole(message, type): one more entry of that level.
logToConsole(logs, level) == [logs EXCEPT ![level] = @ + 1]

\* The subtitle and playback states of src/unnamed/part_000 as their useState
\* hooks initialise them.
InitialSubtitles ==
    /\ subtitleData = NoSubtitles
    /\ currentSubtitle = ""
    /\ showSubtitles = TRUE
    /\ subtitleLanguage = "en"
    /\ isGeneratingSubtitles = FALSE
    /\ subtitleRuns = {}
    /\ currentTime = 0

\* The page as its useState and useRef hooks construct it.
\* No file has been downloaded.
NoFile == [language |-> "", srt |-> <<>>]

\* The thumbnail hooks' initial values; no frame timeout is pending.
InitialThumbnails ==
    /\ thumbnailFrames = 0
    /\ frameTimers = 0
    /\ selectedFrameIndex = Null
    /\ generatedThumbnail = Null

\* No formatSRTTime call has been made.
NoTime == [seconds |-> 0, text |-> <<>>]

Constructed ==
    /\ selectedFile = Null
    /\ uploadedVideoId = Null
    /\ videoData = NoData
    /\ isUploading = FALSE
    /\ uploadProgress = 0
    /\ progress = [f \in Features |-> InitialProgress]
    /\ consoleLogs = [info |-> 1, success |-> 0, error |-> 0]
    /\ statusCheckIntervalRef = Null
    /\ uploadTimers = {}
    /\ uploadRequests = {}
    /\ pollTimers = {}
    /\ statusRequests = {}
    /\ processRequests = {}
    /\ rampTimers = {}
    /\ backendStatus = [k \in 1..MaxSelect |-> "none"]
    /\ nextReq = 1
    /\ nextPoller = 1
    /\ nextRun = 1
    /\ mounted = TRUE
    /\ toastUploadFirst = FALSE
    /\ videoSrc = Null
    /\ liveUrls = {}
    /\ InitialThumbnails
    /\ downloadedFile = NoFile
    /\ InitialSubtitles

Init ==
    /\ Constructed
    /\ srtTime = NoTime
    /\ limits = [select |-> MaxSelect, fetch |-> MaxFetch, runs |-> MaxRuns]

\* URL.createObjectURL(file): the handle made for the k-th file becomes live.
createObjectURL(urls, k) == urls \cup {k}

\* URL.revokeObjectURL as it would be if it released nothing.
revokeObjectURLKept(urls, url) == urls

\* URL.revokeObjectURL(url)
revokeObjectURL(urls, url) == urls \ {url}

\* The cleanup of the effect that depends on videoSrc, run with the value of
\* videoSrc of the render that set the effect up: when the next render has
\* another videoSrc, and when the view unmounts.
videoSrcCleanup(urls, currentVideoSrc) ==
    IF currentVideoSrc # Null THEN revokeObjectURL(urls, currentVideoSrc) ELSE urls

\* handleFileSelect up to the await in uploadVideo, and the render it causes:
\* the k-th file replaces the current one, its object URL becomes videoSrc and
\* the cleanup of the previous videoSrc runs, the video states are reset, the
\* upload ramp is armed and the upload request is sent.  No timer and no
\* request is cancelled.
handleFileSelect ==
    /\ mounted
    /\ selectedFile < limits.select
    /\ selectedFile' = selectedFile + 1
    /\ videoSrc' = selectedFile + 1
    /\ liveUrls' = videoSrcCleanup(createObjectURL(liveUrls, selectedFile + 1), videoSrc)
    /\ uploadedVideoId' = Null
    /\ videoData' = NoData
    /\ isUploading' = TRUE
    /\ uploadProgress' = 0
    /\ consoleLogs' = logToConsole(consoleLogs, "info")
    /\ uploadTimers' = uploadTimers \cup {selectedFile + 1}
    /\ uploadRequests' = uploadRequests \cup {selectedFile + 1}
    /\ generatedThumbnail' = Null
    /\ thumbnailFrames' = 0
    /\ selectedFrameIndex' = Null
    /\ UNCHANGED <<pollVars, processVars, backendStatus, limits, srtTime, frameTimers,
                   downloadedFile, mounted, toastUploadFirst, subtitleVars>>

\* setUploadProgress(prev => Math.min(prev + Math.random() * 15, 95))
rampUpload(prev, inc) == IF prev + inc < UploadCap THEN prev + inc ELSE UploadCap

\* One tick of the upload ramp armed for upload k.
uploadRampTick(k) ==
    /\ k \in uploadTimers
    /\ \E inc \in UploadIncrements : uploadProgress' = rampUpload(uploadProgress, inc)
    /\ UNCHANGED <<selectedFile, videoSrc, liveUrls, uploadedVideoId, videoData, isUploading, consoleLogs,
                   uploadTimers, uploadRequests, pollVars, processVars, backendStatus, otherVars>>

\* The status the backend answers a getVideoStatus(videoId) request with.
getVideoStatus(status, videoId) == status[videoId]

\* startStatusCheck as it would be without its setInterval: one fetch only.
startStatusCheckOnce(videoId, answer) ==
    /\ nextReq <= limits.fetch
    /\ statusRequests' = statusRequests \cup
           {[req |-> nextReq, videoId |-> videoId, status |-> answer]}
    /\ nextReq' = nextReq + 1
    /\ UNCHANGED <<pollTimers, statusCheckIntervalRef, nextPoller>>

\* startStatusCheck as it would be without its call of checkStatus(): the
\* interval is armed and the first fetch waits for the first tick.
startStatusCheckDelayed(videoId, answer) ==
    /\ nextReq <= limits.fetch
    /\ pollTimers' = pollTimers \cup {[h |-> nextPoller, videoId |-> videoId]}
    /\ statusCheckIntervalRef' = nextPoller
    /\ nextPoller' = nextPoller + 1
    /\ UNCHANGED <<statusRequests, nextReq>>

\* startStatusCheck(videoId): checkStatus() runs to its await (one request is
\* sent; `answer` is what the backend answers it with), then the interval is
\* armed and its handle overwrites statusCheckIntervalRef.current.
startStatusCheck(videoId, answer) ==
    /\ nextReq <= limits.fetch
    /\ statusRequests' = statusRequests \cup
           {[req |-> nextReq, videoId |-> videoId, status |-> answer]}
    /\ nextReq' = nextReq + 1
    /\ pollTimers' = pollTimers \cup {[h |-> nextPoller, videoId |-> videoId]}
    /\ statusCheckIntervalRef' = nextPoller
    /\ nextPoller' = nextPoller + 1

\* uploadVideo after `await ApiService.uploadVideo(file)` resolved for upload k
\* with video_id = vid (0: the response carries none).
uploadResolved(k, vid) ==
    /\ k \in uploadRequests
    /\ uploadRequests' = uploadRequests \ {k}
    /\ uploadTimers' = uploadTimers \ {k}
    /\ uploadProgress' = UploadDone
    /\ isUploading' = FALSE
    /\ IF vid # Null
          THEN /\ uploadedVideoId' = vid
               /\ consoleLogs' = logToConsole(consoleLogs, "success")
               /\ backendStatus' = [backendStatus EXCEPT ![vid] = "uploading"]
               /\ startStatusCheck(vid, getVideoStatus(backendStatus', vid))
          ELSE /\ UNCHANGED <<uploadedVideoId, consoleLogs, backendStatus, pollVars>>
    /\ UNCHANGED <<selectedFile, videoSrc, liveUrls, videoData, processVars, otherVars>>

\* uploadVideo after `await ApiService.uploadVideo(file)` rejected: the catch
\* block logs, the finally block clears isUploading.  clearInterval is in the
\* try block after the await and is skipped.
uploadRejected(k) ==
    /\ k \in uploadRequests
    /\ uploadRequests' = uploadRequests \ {k}
    /\ consoleLogs' = logToConsole(consoleLogs, "error")
    /\ isUploading' = FALSE
    /\ UNCHANGED <<selectedFile, videoSrc, liveUrls, uploadedVideoId, videoData, uploadProgress,
                   uploadTimers, pollVars, processVars, backendStatus, otherVars>>

\* The backend moves a job forward: uploading, processing, then completed or
\* failed for ever.
backendAdvance(k) ==
    /\ \/ backendStatus[k] = "uploading" /\ backendStatus' = [backendStatus EXCEPT ![k] = "processing"]
       \/ backendStatus[k] = "processing" /\ \E s \in Terminal : backendStatus' = [backendStatus EXCEPT ![k] = s]
    /\ UNCHANGED <<uploadVars, videoData, consoleLogs, pollVars, processVars, otherVars>>

\* One tick of a poll interval: checkStatus() runs to its await.
pollTick(t) ==
    /\ t \in pollTimers
    /\ nextReq <= limits.fetch
    /\ statusRequests' = statusRequests \cup
           {[req |-> nextReq, videoId |-> t.videoId,
             status |-> getVideoStatus(backendStatus, t.videoId)]}
    /\ nextReq' = nextReq + 1
    /\ UNCHANGED <<uploadVars, videoData, consoleLogs, statusCheckIntervalRef,
                   pollTimers, nextPoller, processVars, backendStatus, otherVars>>

\* clearInterval(statusCheckIntervalRef.current): the interval the ref names,
\* whichever call armed it.
clearStatusInterval(timers, ref) == {t \in timers : t.h # ref}

\* checkStatus after `await ApiService.getVideoStatus(videoId)` resolved.
statusResolved(r) ==
    /\ r \in statusRequests
    /\ statusRequests' = statusRequests \ {r}
    /\ videoData' = [id |-> r.videoId, status |-> r.status, req |-> r.req]
    /\ IF r.status \in Terminal
          THEN /\ IF statusCheckIntervalRef # Null
                     THEN /\ pollTimers' = clearStatusInterval(pollTimers, statusCheckIntervalRef)
                          /\ statusCheckIntervalRef' = Null
                     ELSE UNCHANGED <<pollTimers, statusCheckIntervalRef>>
               /\ consoleLogs' = logToConsole(consoleLogs,
                                     IF r.status = "completed" THEN "success" ELSE "error")
          ELSE UNCHANGED <<pollTimers, statusCheckIntervalRef, consoleLogs>>
    /\ UNCHANGED <<uploadVars, nextReq, nextPoller, processVars, backendStatus, otherVars>>

\* checkStatus as it would be if its catch block stopped the polling.
statusRejectedStops(r) ==
    /\ r \in statusRequests
    /\ statusRequests' = statusRequests \ {r}
    /\ consoleLogs' = logToConsole(consoleLogs, "error")
    /\ pollTimers' = clearStatusInterval(pollTimers, statusCheckIntervalRef)
    /\ statusCheckIntervalRef' = Null
    /\ UNCHANGED <<uploadVars, videoData, nextReq, nextPoller, processVars,
                   backendStatus, otherVars>>

\* checkStatus after `await ApiService.getVideoStatus(videoId)` rejected.
statusRejected(r) ==
    /\ r \in statusRequests
    /\ statusRequests' = statusRequests \ {r}
    /\ consoleLogs' = logToConsole(consoleLogs, "error")
    /\ UNCHANGED <<uploadVars, videoData, statusCheckIntervalRef, pollTimers,
                   nextReq, nextPoller, processVars, backendStatus, otherVars>>

\* The cleanups run when the view unmounts.  That of the effect with no
\* dependencies: processingIntervalRef.current is never assigned, so only the
\* interval whose handle statusCheckIntervalRef.current holds is cleared.
\* That of the effect on videoSrc: the current object URL is revoked.  The handlers
\* of the view need it mounted; timers and awaited requests do not.
unmount ==
    /\ mounted
    /\ mounted' = FALSE
    /\ pollTimers' = clearStatusInterval(pollTimers, statusCheckIntervalRef)
    /\ liveUrls' = videoSrcCleanup(liveUrls, videoSrc)
    /\ UNCHANGED <<selectedFile, videoSrc, uploadedVideoId, isUploading, uploadProgress,
                   uploadTimers, uploadRequests, videoData, consoleLogs, statusCheckIntervalRef,
                   statusRequests, nextReq, nextPoller, processVars, backendStatus,
                   limits, srtTime, thumbnailVars, downloadedFile, toastUploadFirst, subtitleVars>>

\* progressSetter as it would be with one ProgressState shared by all features.
progressSetterShared(f, value) == [g \in Features |-> value]

\* progressSetter(value) for the feature the handler passed its setter of.
progressSetter(f, value) == [progress EXCEPT ![f] = value]

\* The feature buttons: disabled={!uploadedVideoId || isUploading}.
buttonEnabled == uploadedVideoId # Null /\ ~isUploading

\* processVideo without its `if (!uploadedVideoId)` return.
processVideoUnchecked(f) ==
    /\ nextRun <= limits.runs
    /\ consoleLogs' = logToConsole(consoleLogs, "info")
    /\ progress' = [progress EXCEPT ![f] =
           [visible |-> TRUE, percentage |-> 0, status |-> "Starting processing..."]]
    /\ processRequests' = processRequests \cup
           {[run |-> nextRun, feature |-> f, videoId |-> uploadedVideoId]}
    /\ nextRun' = nextRun + 1
    /\ UNCHANGED <<rampTimers, toastUploadFirst>>
    /\ UNCHANGED <<uploadVars, videoData, pollVars, backendStatus, limits, srtTime, thumbnailVars, downloadedFile, mounted,
                   subtitleVars>>

\* handleProcessAudio, handleGenerateSubtitles, handleSummarizeVideo and
\* handleEnhanceVideo, each with processVideo up to its await.  Without an
\* uploadedVideoId the handler raises a toast and returns; with one, the
\* ProgressState of the feature is shown at 0 and the trigger request is sent
\* for the uploadedVideoId of the render the handler belongs to.
\* (isLoadingPreview, the spinner two of the handlers switch, is display only.)
processVideo(f) ==
    /\ IF uploadedVideoId = Null
          THEN /\ toastUploadFirst' = TRUE
               /\ UNCHANGED <<consoleLogs, processVars>>
          ELSE /\ nextRun <= limits.runs
               /\ consoleLogs' = logToConsole(consoleLogs, "info")
               /\ progress' = progressSetter(f,
                      [visible |-> TRUE, percentage |-> 0, status |-> "Starting processing..."])
               /\ processRequests' = processRequests \cup
                      {[run |-> nextRun, feature |-> f, videoId |-> uploadedVideoId]}
               /\ nextRun' = nextRun + 1
               /\ UNCHANGED <<rampTimers, toastUploadFirst>>
    /\ UNCHANGED <<uploadVars, videoData, pollVars, backendStatus, limits, srtTime, thumbnailVars, downloadedFile, mounted,
                   subtitleVars>>

\* A click on the button of feature f.
handleProcess(f) ==
    /\ mounted
    /\ buttonEnabled
    /\ processVideo(f)

\* processVideo after `await ApiService.processVideo(...)` resolved, for a run
\* of one of the four handlers above: the ramp is armed at 0.
processAccepted(q) ==
    /\ q \in processRequests
    /\ processRequests' = processRequests \ {q}
    /\ rampTimers' = rampTimers \cup
           {[run |-> q.run, feature |-> q.feature, videoId |-> q.videoId, progress |-> 0]}
    /\ UNCHANGED <<uploadVars, videoData, consoleLogs, pollVars, progress, nextRun,
                   backendStatus, otherVars>>

\* processVideo after `await ApiService.processVideo(...)` rejected.
\* The catch block's update as it would be if it reset the ProgressState.
withErrorReset(prev) ==
    [visible |-> FALSE, percentage |-> 0, status |-> "Error: Processing failed"]

\* prev => ({ ...prev, status: `Error: ${errorMessage}` })
withError(prev) == [prev EXCEPT !.status = "Error: Processing failed"]

processRejected(q) ==
    /\ q \in processRequests
    /\ processRequests' = processRequests \ {q}
    /\ consoleLogs' = logToConsole(consoleLogs, "error")
    /\ progress' = progressSetter(q.feature, withError(progress[q.feature]))
    /\ UNCHANGED <<uploadVars, videoData, pollVars, rampTimers, nextRun, backendStatus, otherVars>>

\* rampProgress as it would be with `=` for `+=`: progress = Math.random() * 10.
rampProgressNoSum(p, inc) == inc

\* progress += Math.random() * 10
rampProgress(p, inc) == p + inc

\* The test of the ramp as it would be if it ended the run from 90 on.
rampDoneEarly(p) == p >= RampEnd - 10

\* if (progress >= 100)
rampDone(p) == p >= RampEnd

\* One tick of the processing ramp t.  At 100 the ramp clears its own interval,
\* writes 100 and the success message, and restarts the poller for the
\* uploadedVideoId its closure captured.
processingRampTick(t) ==
    /\ t \in rampTimers
    /\ \E inc \in RampIncrements :
          LET p == rampProgress(t.progress, inc) IN
          IF rampDone(p)
             THEN /\ rampTimers' = rampTimers \ {t}
                  /\ progress' = progressSetter(t.feature,
                         [progress[t.feature] EXCEPT !.percentage = RampEnd,
                                                     !.status = successMessage(t.feature)])
                  /\ consoleLogs' = logToConsole(consoleLogs, "success")
                  /\ IF t.videoId # Null
                        THEN startStatusCheck(t.videoId, getVideoStatus(backendStatus, t.videoId))
                        ELSE UNCHANGED pollVars
             ELSE /\ rampTimers' = (rampTimers \ {t}) \cup {[t EXCEPT !.progress = p]}
                  /\ progress' = progressSetter(t.feature,
                         [progress[t.feature] EXCEPT !.percentage = p,
                                                     !.status = "Processing..."])
                  /\ UNCHANGED <<consoleLogs, pollVars>>
    /\ UNCHANGED <<uploadVars, videoData, processRequests, nextRun, backendStatus, otherVars>>

\* ------------------------------------------------------------- thumbnails
\* Array.from({ length: 6 }, ...): the frames simulateThumbnailFrameGeneration
\* makes.
FrameCount == 6

\* handleTabClick('thumbnail') with simulateThumbnailFrameGeneration: the tab
\* switch is logged and, with a file selected and no frames yet, the loading
\* is logged and the 1.5 s timeout is armed.  The tab is clicked when no
\* frames are there and none are loading (the activeTab and the
\* isLoadingThumbnails spinner are display only).
handleTabClickThumbnail ==
    /\ mounted
    /\ selectedFile # Null
    /\ thumbnailFrames = 0
    /\ frameTimers = 0
    /\ frameTimers' = frameTimers + 1
    /\ consoleLogs' = logToConsole(logToConsole(consoleLogs, "info"), "info")
    /\ UNCHANGED <<uploadVars, videoData, pollVars, processVars, backendStatus, limits,
                   srtTime, thumbnailFrames, selectedFrameIndex, generatedThumbnail,
                   downloadedFile, mounted, toastUploadFirst, subtitleVars>>

\* The timeout of simulateThumbnailFrameGeneration: the frames are there.
thumbnailFramesReady ==
    /\ frameTimers > 0
    /\ frameTimers' = frameTimers - 1
    /\ thumbnailFrames' = FrameCount
    /\ consoleLogs' = logToConsole(consoleLogs, "info")
    /\ UNCHANGED <<uploadVars, videoData, pollVars, processVars, backendStatus, limits,
                   srtTime, selectedFrameIndex, generatedThumbnail, downloadedFile,
                   mounted, toastUploadFirst, subtitleVars>>

\* A click on the frame with the number `frame` (index frame - 1), rendered
\* when the frames are there.  A frame is picked once per file.
selectFrame(frame) ==
    /\ mounted
    /\ frame \in 1..thumbnailFrames
    /\ selectedFrameIndex = Null
    /\ selectedFrameIndex' = frame
    /\ consoleLogs' = logToConsole(consoleLogs, "info")
    /\ UNCHANGED <<uploadVars, videoData, pollVars, processVars, backendStatus, limits,
                   srtTime, thumbnailFrames, frameTimers, generatedThumbnail,
                   downloadedFile, mounted, toastUploadFirst, subtitleVars>>

\* The Generate Thumbnail button:
\* disabled={!uploadedVideoId || selectedFrameIndex === null || isUploading}.
thumbnailButtonEnabled ==
    uploadedVideoId # Null /\ selectedFrameIndex # Null /\ ~isUploading

\* handleGenerateThumbnail with processVideo up to its await.  Without an
\* uploadedVideoId or a selected frame it raises a toast and returns.
\* Otherwise the start is logged, generatedThumbnail is reset, the thumbnail
\* ProgressState is shown at 0 and the trigger request is sent; the `.then`
\* callback the handler hangs on processVideo's promise keeps the
\* selectedFrameIndex of the render the handler belongs to.
handleGenerateThumbnail ==
    IF uploadedVideoId = Null \/ selectedFrameIndex = Null
       THEN UNCHANGED vars
       ELSE /\ nextRun <= limits.runs
            /\ consoleLogs' = logToConsole(consoleLogs, "info")
            /\ generatedThumbnail' = Null
            /\ progress' = progressSetter("thumbnail",
                   [visible |-> TRUE, percentage |-> 0, status |-> "Starting processing..."])
            /\ processRequests' = processRequests \cup
                   {[run |-> nextRun, feature |-> "thumbnail", videoId |-> uploadedVideoId,
                     frame |-> selectedFrameIndex]}
            /\ nextRun' = nextRun + 1
            /\ UNCHANGED <<uploadVars, videoData, pollVars, rampTimers, backendStatus,
                           limits, srtTime, thumbnailFrames, frameTimers,
                           selectedFrameIndex, downloadedFile, mounted,
                           toastUploadFirst, subtitleVars>>

\* A click on Generate Thumbnail.
clickGenerateThumbnail ==
    /\ mounted
    /\ thumbnailButtonEnabled
    /\ handleGenerateThumbnail

\* The `.then` callback of handleGenerateThumbnail, run when processVideo's
\* promise resolves: setGeneratedThumbnail(url of the frame), and a log entry.
\* processVideo is an async function that awaits only the trigger request and
\* catches its rejection, so its promise resolves as soon as the ramp is
\* armed, and after the catch block as well.
thenThumbnailReady(q, logs) ==
    /\ generatedThumbnail' = q.frame
    /\ consoleLogs' = logToConsole(logs, "info")

\* processVideo of a thumbnail run after its trigger request resolved: the
\* ramp is armed at 0, the promise resolves and the `.then` callback runs.
thumbnailAccepted(q) ==
    /\ q \in processRequests
    /\ q.feature = "thumbnail"
    /\ processRequests' = processRequests \ {q}
    /\ rampTimers' = rampTimers \cup
           {[run |-> q.run, feature |-> q.feature, videoId |-> q.videoId, progress |-> 0]}
    /\ thenThumbnailReady(q, consoleLogs)
    /\ UNCHANGED <<uploadVars, videoData, pollVars, progress, nextRun, backendStatus,
                   limits, srtTime, thumbnailFrames, frameTimers, selectedFrameIndex,
                   downloadedFile, mounted, toastUploadFirst, subtitleVars>>

\* processVideo of a thumbnail run after its trigger request rejected: the
\* catch block logs the error and writes it to the ProgressState, the promise
\* resolves and the `.then` callback runs.
thumbnailRejected(q) ==
    /\ q \in processRequests
    /\ q.feature = "thumbnail"
    /\ processRequests' = processRequests \ {q}
    /\ progress' = progressSetter(q.feature, withError(progress[q.feature]))
    /\ thenThumbnailReady(q, logToConsole(consoleLogs, "error"))
    /\ UNCHANGED <<uploadVars, videoData, pollVars, rampTimers, nextRun, backendStatus,
                   limits, srtTime, thumbnailFrames, frameTimers, selectedFrameIndex,
                   downloadedFile, mounted, toastUploadFirst, subtitleVars>>

\* ------------------------------------------ subtitles (src/unnamed/part_000)
\* Times are in milliseconds: the code's seconds, times 1000.

\* cues[index].start = index * 4 and .end = (index + 1) * 4 - 0.5, in ms.
CueSpacing == 4000
CueGap == 500

\* The keys of subtitleTexts, and the codes of languageOptions.
TextLanguages == {"en", "ur", "ru-ur", "es", "fr", "de"}
LanguageCodes == TextLanguages \cup {"it", "pt", "ru", "ja", "ko", "zh"}

\* subtitleTexts[language].  Module text is ASCII: the accented letters of the
\* es, fr and de lines are written without accent, the Urdu lines by number.
subtitleTexts(language) ==
    CASE language = "en" ->
           <<"Welcome to this video demonstration.",
             "This showcases our advanced subtitle system.",
             "Powered by OpenAI Whisper technology.",
             "With precise word-level timing synchronization.",
             "Supporting multiple languages and styles.">>
      [] language = "ur" ->
           <<"(Urdu line 1)", "(Urdu line 2)", "(Urdu line 3)", "(Urdu line 4)",
             "(Urdu line 5)">>
      [] language = "ru-ur" ->
           <<"Is video demonstration mein khush aamdeed.",
             "Yeh hamara advanced subtitle system dikhata hai.",
             "OpenAI Whisper technology se powered.",
             "Precise word-level timing sync ke saath.",
             "Multiple languages aur styles support karta hai.">>
      [] language = "es" ->
           <<"Bienvenido a esta demostracion de video.",
             "Esto muestra nuestro sistema avanzado de subtitulos.",
             "Impulsado por la tecnologia OpenAI Whisper.",
             "Con sincronizacion precisa a nivel de palabra.",
             "Compatible con multiples idiomas y estilos.">>
      [] language = "fr" ->
           <<"Bienvenue dans cette demonstration video.",
             "Ceci presente notre systeme de sous-titres avance.",
             "Alimente par la technologie OpenAI Whisper.",
             "Avec synchronisation precise au niveau des mots.",
             "Prenant en charge plusieurs langues et styles.">>
      [] language = "de" ->
           <<"Willkommen zu dieser Video-Demonstration.",
             "Dies zeigt unser fortschrittliches Untertitelsystem.",
             "Angetrieben von OpenAI Whisper-Technologie.",
             "Mit praeziser Synchronisation auf Wortebene.",
             "Unterstuetzt mehrere Sprachen und Stile.">>

\* A string the code builds is the sequence of its pieces: one character per
\* element for numbers and separators, one element for a cue text.
Digits == <<"0", "1", "2", "3", "4", "5", "6", "7", "8", "9">>

\* Number.prototype.toString() of a non-negative integer.
RECURSIVE toString(_)
toString(n) ==
    IF n < 10 THEN <<Digits[n + 1]>>
              ELSE toString(n \div 10) \o <<Digits[(n % 10) + 1]>>

\* String.prototype.padStart(targetLength, padString) for a one-character pad.
RECURSIVE padStart(_, _, _)
padStart(str, targetLength, padString) ==
    IF Len(str) >= targetLength THEN str
    ELSE padStart(<<padString>> \o str, targetLength, padString)

\* `seconds` is an IEEE-754 double.  A time of ms milliseconds reaches
\* formatSRTTime as the double nearest to ms / 1000, which is ms / 1000 itself
\* only when the fraction is a sum of powers of two (0, 0.5, 0.25, ...).  The
\* definitions below compute Math.floor((seconds % 1) * 1000) for that double
\* with integers.  hours, minutes and secs are not affected: the double is
\* within 2^-22 of ms / 1000, which is a whole number or at least 0.001 away
\* from one.

\* floor(log2(n)) for n >= 1.
RECURSIVE floorLog2(_)
floorLog2(n) == IF n < 2 THEN 0 ELSE 1 + floorLog2(n \div 2)

\* 2^j, and 2^j modulo m.
RECURSIVE pow2(_)
pow2(j) == IF j = 0 THEN 1 ELSE 2 * pow2(j - 1)
RECURSIVE pow2mod(_, _)
pow2mod(j, m) == IF j = 0 THEN 1 % m ELSE (2 * pow2mod(j - 1, m)) % m

\* The least c with ms * 2^c >= 1000, for 1 <= ms < 1000.
RECURSIVE shiftsToOne(_)
shiftsToOne(ms) == IF ms >= 1000 THEN 0 ELSE 1 + shiftsToOne(2 * ms)

\* The binary exponent e of ms / 1000: 2^e <= ms / 1000 < 2^(e + 1).
binaryExponent(ms) ==
    IF ms >= 1000 THEN floorLog2(ms \div 1000) ELSE 0 - shiftsToOne(ms)

\* The double nearest to ms / 1000 is M * 2^(e - 52) with M the integer
\* nearest to ms * 2^(52 - e) / 1000 (ties to the even one).  The remainder
\* of ms * 2^(52 - e) modulo 2000: modulo 1000 it is what the rounding drops
\* (below 500: the double is below ms / 1000), and whether it is below 1000
\* tells whether the quotient is even.
roundingRemainder(ms) ==
    ((ms % 2000) * pow2mod(52 - binaryExponent(ms), 2000)) % 2000

\* Math.floor((seconds % 1) * 1000).  `seconds % 1` is exact.  When the double
\* is below ms / 1000 by d = (remainder / 1000) * 2^(e - 52), the product is
\* the double nearest to r - 1000 * d, r the milliseconds of ms; the doubles
\* below r are 2^(E - 52) apart with E the exponent of the doubles just below
\* r, so the product is r only if remainder * 2^(e - 52) <= 2^(E - 53), and
\* Math.floor gives r - 1 otherwise.  A double at or above ms / 1000 gives r.
fractionMilliseconds(ms) ==
    LET r == ms % 1000
        e == binaryExponent(ms)
        rem2 == roundingRemainder(ms)
        rem == rem2 % 1000
        roundedDown == rem < 500 \/ (rem = 500 /\ rem2 = 500)
        E == IF pow2(floorLog2(r)) = r THEN floorLog2(r) - 1 ELSE floorLog2(r)
        absorbed == E - 1 - e >= 0 /\ rem <= pow2(E - 1 - e)
    IN  IF r = 0 THEN 0
        ELSE IF rem >= 1 /\ roundedDown /\ ~absorbed THEN r - 1
        ELSE r

\* formatSRTTime as it would be if it dropped the fraction of the second.
formatSRTTimeWholeSeconds(ms) ==
    padStart(toString(ms \div 3600000), 2, "0") \o <<":">>
        \o padStart(toString((ms % 3600000) \div 60000), 2, "0") \o <<":">>
        \o padStart(toString((ms % 60000) \div 1000), 2, "0") \o <<",">>
        \o padStart(toString(0), 3, "0")

\* formatSRTTime as it would be without padStart.
formatSRTTimeUnpadded(ms) ==
    toString(ms \div 3600000) \o <<":">> \o toString((ms % 3600000) \div 60000)
        \o <<":">> \o toString((ms % 60000) \div 1000) \o <<",">>
        \o toString(fractionMilliseconds(ms))

\* formatSRTTime(seconds), for seconds the double nearest to ms / 1000.
formatSRTTime(ms) ==
    LET hours == ms \div 3600000
        minutes == (ms % 3600000) \div 60000
        secs == (ms % 60000) \div 1000
        milliseconds == fractionMilliseconds(ms)
    IN  padStart(toString(hours), 2, "0") \o <<":">>
            \o padStart(toString(minutes), 2, "0") \o <<":">>
            \o padStart(toString(secs), 2, "0") \o <<",">>
            \o padStart(toString(milliseconds), 3, "0")

\* join as it would be if it put nothing between the strings.
RECURSIVE joinNoSeparator(_, _)
joinNoSeparator(strs, separator) ==
    IF Len(strs) = 0 THEN <<>>
    ELSE strs[1] \o joinNoSeparator(Tail(strs), separator)

\* Array.prototype.join(separator) of an array of strings.
RECURSIVE join(_, _)
join(strs, separator) ==
    IF Len(strs) = 0 THEN <<>>
    ELSE IF Len(strs) = 1 THEN strs[1]
    ELSE strs[1] \o separator \o join(Tail(strs), separator)

\* const srt = cues.map((cue, index) => `${index + 1}\n${startTime} -->
\* ${endTime}\n${cue.text}\n`).join('\n')
srt(cues) ==
    join([i \in 1..Len(cues) |->
             toString(i) \o <<"\n">>
                 \o formatSRTTime(cues[i].start) \o <<" --> ">>
                 \o formatSRTTime(cues[i].end) \o <<"\n">>
                 \o <<cues[i].text>> \o <<"\n">>],
         <<"\n">>)

\* The fallback as it would be without `|| subtitleTexts['en']`.
textsNoFallback(language) ==
    IF language \in TextLanguages THEN subtitleTexts(language) ELSE <<>>

\* const texts = subtitleTexts[language] || subtitleTexts['en']
texts(language) ==
    IF language \in TextLanguages THEN subtitleTexts(language) ELSE subtitleTexts("en")

\* The cue as it would be if it ended where the next one starts.
cueContiguous(text, index) ==
    [start |-> index * CueSpacing, end |-> (index + 1) * CueSpacing, text |-> text]

\* The cue as it would be if it ended half a second into the next one.
cueOverlapping(text, index) ==
    [start |-> index * CueSpacing, end |-> (index + 1) * CueSpacing + CueGap,
     text |-> text]

\* (text, index) => ({ start: index * 4, end: (index + 1) * 4 - 0.5, text }),
\* index counted from 0.
cue(text, index) ==
    [start |-> index * CueSpacing, end |-> (index + 1) * CueSpacing - CueGap,
     text |-> text]

\* generateMockSubtitleData(language): the canned lines of the language (of
\* 'en' when it has none), one cue per line, and the SRT text of the cues.
generateMockSubtitleData(language) ==
    LET cues == [i \in 1..Len(texts(language)) |-> cue(texts(language)[i], i - 1)]
    IN  [language |-> language, cues |-> cues, srt |-> srt(cues)]

\* The stages as they would be with the third before the second.
stagesUnordered ==
    <<[progress |-> 20, status |-> "Extracting audio track..."],
      [progress |-> 60, status |-> "Processing word-level timestamps..."],
      [progress |-> 40, status |-> "Running Whisper speech recognition..."],
      [progress |-> 80, status |-> "Generating subtitle formats..."],
      [progress |-> 100, status |-> "Subtitles generated successfully!"]>>

\* The stages generateAdvancedSubtitles walks through, one per second.
stages ==
    <<[progress |-> 20, status |-> "Extracting audio track..."],
      [progress |-> 40, status |-> "Running Whisper speech recognition..."],
      [progress |-> 60, status |-> "Processing word-level timestamps..."],
      [progress |-> 80, status |-> "Generating subtitle formats..."],
      [progress |-> 100, status |-> "Subtitles generated successfully!"]>>

\* generateAdvancedSubtitles up to its first await.  Without an
\* uploadedVideoId it raises the toast and returns.  The closure keeps the
\* subtitleLanguage and uploadedVideoId of the render it belongs to.
generateAdvancedSubtitles ==
    /\ IF uploadedVideoId = Null
          THEN /\ toastUploadFirst' = TRUE
               /\ UNCHANGED <<isGeneratingSubtitles, progress, consoleLogs,
                              subtitleRuns, nextRun>>
          ELSE /\ nextRun <= limits.runs
               /\ isGeneratingSubtitles' = TRUE
               /\ progress' = progressSetter("subtitles",
                      [visible |-> TRUE, percentage |-> 0,
                       status |-> "Initializing Whisper AI..."])
               /\ consoleLogs' = logToConsole(consoleLogs, "info")
               /\ subtitleRuns' = subtitleRuns \cup
                      {[run |-> nextRun, stage |-> 0, language |-> subtitleLanguage,
                        videoId |-> uploadedVideoId]}
               /\ nextRun' = nextRun + 1
               /\ UNCHANGED toastUploadFirst
    /\ UNCHANGED <<uploadVars, videoData, pollVars, processRequests, rampTimers,
                   backendStatus, limits, srtTime, thumbnailVars, downloadedFile, mounted, subtitleData, currentSubtitle,
                   showSubtitles, subtitleLanguage, currentTime>>

\* The Generate button: rendered with an uploadedVideoId,
\* disabled={isGeneratingSubtitles}.
clickGenerateSubtitles ==
    /\ mounted
    /\ uploadedVideoId # Null
    /\ ~isGeneratingSubtitles
    /\ generateAdvancedSubtitles

\* generateAdvancedSubtitles after one of its awaited one-second timeouts: the
\* next stage is written; after the last stage the loop is left and, with no
\* further await, the track of the closure's language is stored, success is
\* logged and `finally` clears isGeneratingSubtitles.
subtitleStage(r) ==
    /\ r \in subtitleRuns
    /\ LET stage == stages[r.stage + 1] IN
          /\ progress' = progressSetter("subtitles",
                 [progress["subtitles"] EXCEPT !.percentage = stage.progress,
                                               !.status = stage.status])
          /\ IF r.stage + 1 < Len(stages)
                THEN /\ subtitleRuns' = (subtitleRuns \ {r}) \cup
                            {[r EXCEPT !.stage = r.stage + 1]}
                     /\ UNCHANGED <<subtitleData, consoleLogs, isGeneratingSubtitles>>
                ELSE /\ subtitleRuns' = subtitleRuns \ {r}
                     /\ subtitleData' = generateMockSubtitleData(r.language)
                     /\ consoleLogs' = logToConsole(consoleLogs, "success")
                     /\ isGeneratingSubtitles' = FALSE
    /\ UNCHANGED <<uploadVars, videoData, pollVars, processRequests, rampTimers, nextRun,
                   backendStatus, limits, srtTime, thumbnailVars, downloadedFile, mounted, toastUploadFirst, currentSubtitle,
                   showSubtitles, subtitleLanguage, currentTime>>

\* onChange of the language select (rendered with an uploadedVideoId).
setSubtitleLanguage(code) ==
    /\ mounted
    /\ uploadedVideoId # Null
    /\ subtitleLanguage' = code
    /\ UNCHANGED <<uploadVars, videoData, consoleLogs, pollVars, processVars,
                   backendStatus, limits, srtTime, thumbnailVars, downloadedFile, mounted, toastUploadFirst, subtitleData,
                   currentSubtitle, showSubtitles, isGeneratingSubtitles,
                   subtitleRuns, currentTime>>

\* The Show/Hide Subtitles buttons (rendered with a track).
toggleShowSubtitles ==
    /\ mounted
    /\ subtitleData # NoSubtitles
    /\ showSubtitles' = ~showSubtitles
    /\ UNCHANGED <<uploadVars, videoData, consoleLogs, pollVars, processVars,
                   backendStatus, limits, srtTime, thumbnailVars, downloadedFile, mounted, toastUploadFirst, subtitleData,
                   currentSubtitle, subtitleLanguage, isGeneratingSubtitles,
                   subtitleRuns, currentTime>>

\* find as it would be with `time < cue.end`.
RECURSIVE findBeforeEnd(_, _, _)
findBeforeEnd(cues, time, i) ==
    IF i > Len(cues) THEN ""
    ELSE IF time >= cues[i].start /\ time < cues[i].end THEN cues[i].text
    ELSE findBeforeEnd(cues, time, i + 1)

\* subtitleData.cues.find(cue => time >= cue.start && time <= cue.end), and the
\* text handleVideoTimeUpdate takes from it: currentCue ? currentCue.text : ''.
RECURSIVE find(_, _, _)
find(cues, time, i) ==
    IF i > Len(cues) THEN ""
    ELSE IF time >= cues[i].start /\ time <= cues[i].end THEN cues[i].text
    ELSE find(cues, time, i + 1)

\* handleVideoTimeUpdate with videoRef.current.currentTime = time.
handleVideoTimeUpdate(time) ==
    /\ mounted
    /\ selectedFile # Null
    /\ currentTime' = time
    /\ IF subtitleData # NoSubtitles /\ showSubtitles
          THEN currentSubtitle' = find(subtitleData.cues, time, 1)
          ELSE UNCHANGED currentSubtitle
    /\ UNCHANGED <<uploadVars, videoData, consoleLogs, pollVars, processVars,
                   backendStatus, limits, srtTime, thumbnailVars, downloadedFile, mounted, toastUploadFirst, subtitleData,
                   showSubtitles, subtitleLanguage, isGeneratingSubtitles, subtitleRuns>>

\* The object URL downloadSubtitles makes for its Blob.
BlobUrl == 0 - 1

\* A click on Download SRT (rendered with an uploadedVideoId and a track):
\* downloadSubtitles saves subtitleData.srt under the name
\* `subtitles_${subtitleLanguage}_${Date.now()}.srt`, through an object URL it
\* creates and revokes, and logs success.  The file keeps the language code
\* in its name (the time in the name is not modelled).  One file is
\* downloaded in a behaviour.
downloadSubtitles ==
    /\ mounted
    /\ uploadedVideoId # Null
    /\ subtitleData # NoSubtitles
    /\ downloadedFile = NoFile
    /\ downloadedFile' = [language |-> subtitleLanguage, srt |-> subtitleData.srt]
    /\ liveUrls' = revokeObjectURL(createObjectURL(liveUrls, BlobUrl), BlobUrl)
    /\ consoleLogs' = logToConsole(consoleLogs, "success")
    /\ UNCHANGED <<selectedFile, videoSrc, uploadedVideoId, isUploading, uploadProgress,
                   uploadTimers, uploadRequests, videoData, pollVars, processVars,
                   backendStatus, limits, srtTime, thumbnailVars, mounted,
                   toastUploadFirst, subtitleVars>>

\* handleFileSelect of part_000 up to the await in uploadVideo: as above, and
\* the track and the caption are reset too.  The new videoSrc re-runs the
\* effect with [videoSrc] dependencies, whose cleanup clears the interval
\* statusCheckIntervalRef.current names (and leaves the ref as it is).
handleFileSelectAdv ==
    /\ mounted
    /\ selectedFile < limits.select
    /\ selectedFile' = selectedFile + 1
    /\ videoSrc' = selectedFile + 1
    /\ liveUrls' = videoSrcCleanup(createObjectURL(liveUrls, selectedFile + 1), videoSrc)
    /\ uploadedVideoId' = Null
    /\ videoData' = NoData
    /\ subtitleData' = NoSubtitles
    /\ generatedThumbnail' = Null
    /\ thumbnailFrames' = 0
    /\ selectedFrameIndex' = Null
    /\ currentSubtitle' = ""
    /\ isUploading' = TRUE
    /\ uploadProgress' = 0
    /\ consoleLogs' = logToConsole(consoleLogs, "info")
    /\ uploadTimers' = uploadTimers \cup {selectedFile + 1}
    /\ uploadRequests' = uploadRequests \cup {selectedFile + 1}
    /\ pollTimers' = clearStatusInterval(pollTimers, statusCheckIntervalRef)
    /\ UNCHANGED <<statusCheckIntervalRef, statusRequests, nextReq, nextPoller,
                   processVars, backendStatus, limits, srtTime, frameTimers, downloadedFile, mounted, toastUploadFirst,
                   showSubtitles, subtitleLanguage, isGeneratingSubtitles,
                   subtitleRuns, currentTime>>

\* ---------------------------------------------------------- specifications
\* The features whose handler goes straight to processVideo.
ProcessFeatures == {"audio", "subtitles", "summarization", "enhancement"}
\* The two of them SpecProc runs (processVideo treats all of them alike).
RunFeatures == {"audio", "subtitles"}

\* The page from its construction: one feature (audio) is run on the videos.
Next ==
    \/ handleFileSelect
    \/ \E k \in 1..MaxSelect : uploadRampTick(k)
    \/ \E k \in 1..MaxSelect : \E vid \in {Null, k} : uploadResolved(k, vid)
    \/ \E k \in 1..MaxSelect : uploadRejected(k)
    \/ \E k \in 1..MaxSelect : backendAdvance(k)
    \/ \E t \in pollTimers : pollTick(t)
    \/ \E r \in statusRequests : statusResolved(r)
    \/ \E r \in statusRequests : statusRejected(r)
    \/ handleProcess("audio")
    \/ \E q \in processRequests : processAccepted(q)
    \/ \E q \in processRequests : processRejected(q)
    \/ \E t \in rampTimers : processingRampTick(t)

Spec == Init /\ [][Next]_vars

\* The page without its feature buttons, until the view unmounts: uploads, the
\* pollers they start and the backend.
InitUpload ==
    /\ Constructed
    /\ srtTime = NoTime
    /\ limits = [select |-> MaxSelect, fetch |-> MaxProcFetch, runs |-> 0]

NextUpload ==
    \/ handleFileSelect
    \/ \E k \in 1..MaxSelect : uploadRampTick(k)
    \/ \E k \in 1..MaxSelect : \E vid \in {Null, k} : uploadResolved(k, vid)
    \/ \E k \in 1..MaxSelect : uploadRejected(k)
    \/ \E k \in 1..MaxSelect : backendAdvance(k)
    \/ \E t \in pollTimers : pollTick(t)
    \/ \E r \in statusRequests : statusResolved(r)
    \/ \E r \in statusRequests : statusRejected(r)
    \/ unmount

SpecUpload == InitUpload /\ [][NextUpload]_vars

\* The page after the first video was uploaded and its poller has stored the
\* terminal status `completed` and cleared its interval.  Spec reaches this
\* state (see UploadedAndPolled): handleFileSelect, uploadResolved(1, 1),
\* statusResolved of the first request, backendAdvance(1) twice, one pollTick
\* and statusResolved of its request.
InitProc ==
    /\ selectedFile = 1
    /\ uploadedVideoId = 1
    /\ videoData = [id |-> 1, status |-> "completed", req |-> 2]
    /\ isUploading = FALSE
    /\ uploadProgress = UploadDone
    /\ progress = [f \in Features |-> InitialProgress]
    /\ consoleLogs = [info |-> 2, success |-> 2, error |-> 0]
    /\ statusCheckIntervalRef = Null
    /\ uploadTimers = {}
    /\ uploadRequests = {}
    /\ pollTimers = {}
    /\ statusRequests = {}
    /\ processRequests = {}
    /\ rampTimers = {}
    /\ backendStatus = [k \in 1..MaxSelect |-> IF k = 1 THEN "completed" ELSE "none"]
    /\ nextReq = 3
    /\ nextPoller = 2
    /\ nextRun = 1
    /\ videoSrc = 1
    /\ liveUrls = {1}
    /\ srtTime = NoTime
    /\ InitialThumbnails
    /\ downloadedFile = NoFile
    /\ limits = [select |-> 1, fetch |-> 2 + MaxProcFetch, runs |-> MaxProcRuns]
    /\ mounted = TRUE
    /\ toastUploadFirst = FALSE
    /\ InitialSubtitles

\* InitProc but for the bounds, as a state of Spec.
UploadedAndPolled ==
    /\ selectedFile = 1 /\ uploadedVideoId = 1
    /\ videoData = [id |-> 1, status |-> "completed", req |-> 2]
    /\ isUploading = FALSE /\ uploadProgress = UploadDone
    /\ progress = [f \in Features |-> InitialProgress]
    /\ consoleLogs = [info |-> 2, success |-> 2, error |-> 0]
    /\ statusCheckIntervalRef = Null
    /\ uploadTimers = {} /\ uploadRequests = {} /\ pollTimers = {}
    /\ statusRequests = {} /\ processRequests = {} /\ rampTimers = {}
    /\ backendStatus = [k \in 1..MaxSelect |-> IF k = 1 THEN "completed" ELSE "none"]
    /\ nextReq = 3 /\ nextPoller = 2 /\ nextRun = 1
    /\ videoSrc = 1 /\ liveUrls = {1} /\ srtTime = NoTime
    /\ InitialThumbnails /\ downloadedFile = NoFile

\* The processing runs of the uploaded video, several features side by side.
NextProc ==
    \/ \E f \in RunFeatures : handleProcess(f)
    \/ \E q \in processRequests : processAccepted(q)
    \/ \E q \in processRequests : processRejected(q)
    \/ \E t \in rampTimers : processingRampTick(t)
    \/ \E t \in pollTimers : pollTick(t)
    \/ \E r \in statusRequests : statusResolved(r)
    \/ \E r \in statusRequests : statusRejected(r)

SpecProc == InitProc /\ [][NextProc]_vars

\* The handlers of the feature triggers called directly, whatever the buttons
\* allow (the rendered buttons are disabled or absent without an
\* uploadedVideoId), on a page that uploads and replaces videos.
InitTrigger ==
    /\ Constructed
    /\ srtTime = NoTime
    /\ limits = [select |-> MaxSelect, fetch |-> MaxFetch, runs |-> MaxRuns]

NextTrigger ==
    \/ handleFileSelect
    \/ \E k \in 1..MaxSelect : \E vid \in {Null, k} : uploadResolved(k, vid)
    \/ \E k \in 1..MaxSelect : uploadRejected(k)
    \/ \E f \in RunFeatures : mounted /\ processVideo(f)
    \/ mounted /\ generateAdvancedSubtitles
    \/ \E q \in processRequests : processAccepted(q)
    \/ \E q \in processRequests : processRejected(q)
    \/ \E t \in rampTimers : processingRampTick(t)
    \/ \E r \in subtitleRuns : subtitleStage(r)

SpecTrigger == InitTrigger /\ [][NextTrigger]_vars

\* The languages the model selects: two with canned lines and one without.
SelectedLanguages == {"en", "ru-ur", "it"}
\* The playback times the model reports: the start and the end of the first
\* cue, a time in the gap after it, and the start of the second cue.
TimeSamples == {0, CueSpacing - CueGap, CueSpacing - CueGap \div 2, CueSpacing}

\* The page of src/unnamed/part_000: uploads, subtitle generation and playback.
\* The status requests the uploads send stay unanswered in these behaviours
\* (no handler of the subtitle states reads videoData).
InitAdv ==
    /\ Constructed
    /\ srtTime = NoTime
    /\ limits = [select |-> MaxSelect, fetch |-> MaxProcFetch, runs |-> MaxRuns]

NextAdv ==
    \/ handleFileSelectAdv
    \/ \E k \in 1..MaxSelect : \E vid \in {Null, k} : uploadResolved(k, vid)
    \/ \E k \in 1..MaxSelect : uploadRejected(k)
    \/ clickGenerateSubtitles
    \/ \E r \in subtitleRuns : subtitleStage(r)
    \/ \E code \in SelectedLanguages : setSubtitleLanguage(code)
    \/ toggleShowSubtitles
    \/ \E time \in TimeSamples : handleVideoTimeUpdate(time)

SpecAdv == InitAdv /\ [][NextAdv]_vars

\* The cue lookup of handleVideoTimeUpdate on its own: the page holds an
\* uploaded video and a track of at most MaxCues cues, with subtitles shown;
\* the cues take their times from TrackTimes (they may overlap, touch or be
\* out of order) and the player reports the times of LookupTimes.
MaxCues == 2
TrackTimes == {0, 1000, 2000}
LookupTimes == {0, 500, 1000, 1500, 2000, 2500}
TrackCues == [start : TrackTimes, end : TrackTimes, text : {"one", "two"}]
Tracks == UNION {[1..n -> TrackCues] : n \in 0..MaxCues}

InitLookup ==
    /\ UploadedAndPolled
    /\ limits = [select |-> 1, fetch |-> 2, runs |-> 0]
    /\ mounted = TRUE
    /\ toastUploadFirst = FALSE
    /\ \E cues \in Tracks :
          subtitleData = [language |-> "en", cues |-> cues, srt |-> srt(cues)]
    /\ currentSubtitle = ""
    /\ showSubtitles = TRUE
    /\ subtitleLanguage = "en"
    /\ isGeneratingSubtitles = FALSE
    /\ subtitleRuns = {}
    /\ currentTime = 0

NextLookup == \E time \in LookupTimes : handleVideoTimeUpdate(time)

SpecLookup == InitLookup /\ [][NextLookup]_vars

\* The subtitle generator on its own: the page holds an uploaded video, every
\* language of the select can be chosen, and tracks are generated.
InitGen ==
    /\ UploadedAndPolled
    /\ limits = [select |-> 1, fetch |-> 2, runs |-> MaxRuns]
    /\ mounted = TRUE
    /\ toastUploadFirst = FALSE
    /\ InitialSubtitles

NextGen ==
    \/ \E code \in LanguageCodes : setSubtitleLanguage(code)
    \/ clickGenerateSubtitles
    \/ \E r \in subtitleRuns : subtitleStage(r)

SpecGen == InitGen /\ [][NextGen]_vars

\* The processing runs of one feature (audio) under fair timers: as SpecProc
\* without the ticks of the status pollers and the answers to their requests
\* (no ramp reads what they fetch), and every armed ramp ticking again and
\* again with a strictly positive increment.
InitRamp ==
    /\ UploadedAndPolled
    /\ limits = [select |-> 1, fetch |-> 2 + MaxProcRuns, runs |-> MaxProcRuns]
    /\ mounted = TRUE
    /\ toastUploadFirst = FALSE
    /\ InitialSubtitles

\* A tick of the ramp of run n.
rampTickOf(n) == \E t \in rampTimers : t.run = n /\ processingRampTick(t)

NextRamp ==
    \/ handleProcess("audio")
    \/ \E q \in processRequests : processAccepted(q)
    \/ \E q \in processRequests : processRejected(q)
    \/ \E n \in 1..MaxProcRuns : rampTickOf(n)

\* A tick of the ramp of run n with a strictly positive increment: the
\* progress of the ramp moves, or the ramp ends.
rampAdvanceOf(n) ==
    \E t \in rampTimers : t.run = n /\ processingRampTick(t) /\ t \notin rampTimers'

SpecRamp ==
    /\ InitRamp
    /\ [][NextRamp]_vars
    /\ \A n \in 1..MaxProcRuns : WF_vars(rampAdvanceOf(n))

\* The thumbnail tab of Features.tsx on a page that holds an uploaded video:
\* the frames are loaded, one of FrameSamples is picked and thumbnails are
\* generated.
FrameSamples == {1, FrameCount}

InitThumb ==
    /\ UploadedAndPolled
    /\ limits = [select |-> 1, fetch |-> 2 + MaxProcFetch, runs |-> MaxProcRuns]
    /\ mounted = TRUE
    /\ toastUploadFirst = FALSE
    /\ InitialSubtitles

NextThumb ==
    \/ handleTabClickThumbnail
    \/ thumbnailFramesReady
    \/ \E frame \in FrameSamples : selectFrame(frame)
    \/ clickGenerateThumbnail
    \/ \E q \in processRequests : thumbnailAccepted(q)
    \/ \E q \in processRequests : thumbnailRejected(q)
    \/ \E t \in rampTimers : processingRampTick(t)
    \/ \E r \in statusRequests : statusResolved(r)

SpecThumb == InitThumb /\ [][NextThumb]_vars

\* The download of a generated track: the page holds an uploaded video, the
\* language is chosen among the codes of the select before and after a
\* generation, and the track is downloaded.
InitDownload ==
    /\ UploadedAndPolled
    /\ limits = [select |-> 1, fetch |-> 2, runs |-> MaxRuns]
    /\ mounted = TRUE
    /\ toastUploadFirst = FALSE
    /\ InitialSubtitles

NextDownload ==
    \/ \E code \in LanguageCodes : setSubtitleLanguage(code)
    \/ clickGenerateSubtitles
    \/ \E r \in subtitleRuns : subtitleStage(r)
    \/ downloadSubtitles

SpecDownload == InitDownload /\ [][NextDownload]_vars

\* formatSRTTime on its own: the times it is called with, to the millisecond,
\* are every combination of these hours, minutes, seconds and milliseconds.
FormatHours == {0, 1, 100}
FormatMinutes == {0, 59}
FormatSeconds == {0, 1, 59}
FormatMilliseconds == {0, 1, 350, 500, 999}
FormatTimes ==
    {((h * 60 + m) * 60 + sec) * 1000 + milli :
        h \in FormatHours, m \in FormatMinutes, sec \in FormatSeconds,
        milli \in FormatMilliseconds}

InitFormat ==
    /\ Constructed
    /\ limits = [select |-> MaxSelect, fetch |-> MaxFetch, runs |-> MaxRuns]
    /\ \E ms \in FormatTimes : srtTime = [seconds |-> ms, text |-> <<>>]

\* One call of formatSRTTime with the time drawn.
callFormatSRTTime ==
    /\ srtTime.text = <<>>
    /\ srtTime' = [srtTime EXCEPT !.text = formatSRTTime(srtTime.seconds)]
    /\ UNCHANGED <<uploadVars, videoData, consoleLogs, pollVars, processVars,
                   backendStatus, limits, thumbnailVars, downloadedFile, mounted,
                   toastUploadFirst, subtitleVars>>

NextFormat == callFormatSRTTime

SpecFormat == InitFormat /\ [][NextFormat]_vars

\* ------------------------------------------------------------------ claims

\* A status response was stored in this step (every response has its own req).
StatusProcessed == videoData' # NoData /\ videoData'.req # videoData.req

\* C1: once a poller has processed a response with status completed or failed
\* for a job id, no poll interval for that id remains armed.
C1_PollerStopsAtTerminalStatus ==
    [][(StatusProcessed /\ videoData'.status \in Terminal)
          => \A t \in pollTimers' : t.videoId # videoData'.id]_vars

\* C2: at most one status-poll interval is armed in every reachable state.
C2_AtMostOnePollInterval == Cardinality(pollTimers) <= 1

\* C3: after handleFileSelect has replaced the video, no callback of the previous
\* video runs: no response for another job id than the current file's is stored,
\* and no processing ramp started for another video advances or ends (an ending
\* ramp is what restarts the poller).
C3_NoCallbackOfReplacedVideo ==
    [][/\ StatusProcessed => videoData'.id = selectedFile
       /\ \A t \in rampTimers : t.videoId # selectedFile => t \in rampTimers']_vars

\* C4: for each job id at most one getVideoStatus request is in flight.
C4_OneRequestInFlight ==
    \A r1, r2 \in statusRequests : r1.videoId = r2.videoId => r1 = r2

\* C5: each processed response replaces videoData, and the response to an older
\* request never replaces the response to a newer request for the same job, so
\* that videoData is the newest response once polling has stopped.
C5_NewestResponseStays ==
    [][(StatusProcessed /\ videoData.id = videoData'.id)
          => videoData'.req > videoData.req]_vars

\* C6: the backend reporting every job's statuses in forward order (as
\* backendAdvance does), the status the client holds for a job id never changes
\* again once it is completed or failed.
C6_TerminalStatusIsFinal ==
    [][(videoData.status \in Terminal /\ videoData'.id = videoData.id)
          => videoData'.status = videoData.status]_vars

\* C7: the percentages one processing ramp writes are non-decreasing, each lies
\* in [0, 100], and the last one, written when the ramp clears its interval, is
\* exactly 100.  (The `progress` of an armed ramp is the last value it wrote.)
C7_RampNonDecreasingTo100 ==
    [][\A t \in rampTimers :
          LET after == {u \in rampTimers' : u.run = t.run} IN
          IF after = {}
             THEN progress'[t.feature].percentage = 100
             ELSE \A u \in after :
                     /\ u.progress >= t.progress
                     /\ u.progress \in 0..100
                     /\ u.progress # t.progress
                           => progress'[t.feature].percentage = u.progress]_vars

\* C7 witness: a ramp has run through several values and written its final 100.
C7_RampCompleted ==
    \E f \in Features :
        /\ progress[f] = [visible |-> TRUE, percentage |-> 100, status |-> successMessage(f)]
        /\ \A t \in rampTimers : t.feature # f

\* The features a run of which took a step: its trigger request was sent or
\* answered, or its ramp ticked to a new value or ended.
Acted ==
    {q.feature : q \in (processRequests \ processRequests') \cup (processRequests' \ processRequests)}
    \cup {t.feature : t \in (rampTimers \ rampTimers') \cup (rampTimers' \ rampTimers)}

\* C8: a step of feature A's processing run (start, ramp tick, completion,
\* trigger rejection) leaves the ProgressState of every other feature unchanged.
C8_ProgressIsolation ==
    [][/\ \A a \in Acted : \A b \in Features \ {a} : progress'[b] = progress[b]
       /\ Cardinality({f \in Features : progress'[f] # progress[f]}) <= 1]_vars

\* C8 witness: two features run side by side, each ramp at its own value.
C8_TwoRampsSideBySide ==
    \E t, u \in rampTimers :
        /\ t.feature # u.feature
        /\ t.progress > 0 /\ u.progress > t.progress
        /\ progress[t.feature].percentage = t.progress
        /\ progress[u.feature].percentage = u.progress

\* C9: while an upload is pending uploadProgress never decreases and never
\* exceeds 95, and it is exactly 100 when the upload's response has arrived.
C9_UploadRamp ==
    [][/\ uploadRequests \cap uploadRequests' # {} => uploadProgress' >= uploadProgress
       /\ uploadRequests' # {} => uploadProgress' <= UploadCap
       /\ \A k \in uploadRequests \ uploadRequests' :
             k \notin uploadTimers' => uploadProgress' = UploadDone]_vars

\* C10: when the upload request has rejected, the upload ramp is cancelled: an
\* upload-ramp interval is armed only while its upload request is pending.
C10_UploadRampCancelledOnFailure == uploadTimers \subseteq uploadRequests

\* The uploads whose awaited request settles in this step: `Rejected` when the
\* await threw (the clearInterval after it is skipped, the ramp stays armed),
\* `Resolved` otherwise.
UploadsRejected == {k \in uploadRequests \ uploadRequests' : k \in uploadTimers'}
UploadsResolved == {k \in uploadRequests \ uploadRequests' : k \notin uploadTimers'}

\* C11: after an upload failed, no video is uploaded: uploadedVideoId and
\* videoData are null, no poller was started for that upload, isUploading is
\* false and one error entry was appended to the log.
C11_FailedUploadLeavesNoVideo ==
    [][\A k \in UploadsRejected :
          /\ uploadedVideoId' = Null
          /\ videoData' = NoData
          /\ \A t \in pollTimers' : t.videoId # k
          /\ ~isUploading'
          /\ consoleLogs'.error = consoleLogs.error + 1]_vars

C15_NewUploadResetsProgress ==
    [][selectedFile' # selectedFile =>
          \A f \in Features : progress'[f] = InitialProgress]_vars

\* C17: after the view unmounted no timer remains armed: no upload ramp, no
\* poll interval, no processing ramp.
C17_NoTimerAfterUnmount ==
    ~mounted => (uploadTimers = {} /\ pollTimers = {} /\ rampTimers = {})

\* C14: when the trigger request of a run is rejected, no ramp exists for that
\* run, the ProgressState of its feature stays visible with its percentage
\* unchanged, its status becomes 'Error: ...' and one error entry is logged.
\* (The only other way a trigger request settles is the accepted one: the ramp
\* of the run is armed at 0 and neither the ProgressState nor the log changes.)
C14_RejectedTriggerShowsError ==
    [][\A q \in processRequests \ processRequests' :
          \/ /\ \E t \in rampTimers' \ rampTimers : t.run = q.run /\ t.progress = 0
             /\ progress' = progress
             /\ consoleLogs' = consoleLogs
          \/ /\ \A t \in rampTimers' : t.run # q.run
             /\ rampTimers' = rampTimers
             /\ progress'[q.feature].visible
             /\ progress'[q.feature].percentage = progress[q.feature].percentage
             /\ progress'[q.feature].status = "Error: Processing failed"
             /\ \A g \in Features \ {q.feature} : progress'[g] = progress[g]
             /\ consoleLogs'.error = consoleLogs.error + 1]_vars

\* A second run of a feature was rejected while the ramp of its first run was
\* under way: the error is shown over the percentage the ramp had written.
C14_ErrorOverRunningRamp ==
    \E t \in rampTimers :
        /\ t.progress > 0
        /\ progress[t.feature] = [visible |-> TRUE, percentage |-> t.progress,
                                  status |-> "Error: Processing failed"]
        /\ \A q \in processRequests : q.feature # t.feature

\* The runs of feature f that are under way: trigger request in flight, ramp
\* armed, or (subtitles) a generation between two of its timeouts.
RunsUnderWay(f) ==
    {q.run : q \in {x \in processRequests : x.feature = f}}
        \cup {t.run : t \in {x \in rampTimers : x.feature = f}}
        \cup (IF f = "subtitles" THEN {r.run : r \in subtitleRuns} ELSE {})

\* C13: a step taken while uploadedVideoId is null issues no processVideo
\* request and starts no run: every ramp and every generation it leaves armed
\* belongs to a run that was under way before it, and a ProgressState changes
\* only for a feature with such a run.  The step of a trigger that finds the
\* id null (it raises the toast) changes no request, timer or ProgressState.
C13_NoTriggerWithoutVideo ==
    [][/\ uploadedVideoId = Null =>
             /\ processRequests' \subseteq processRequests
             /\ \A t \in rampTimers' : t.run \in RunsUnderWay(t.feature)
             /\ \A r \in subtitleRuns' : r.run \in RunsUnderWay("subtitles")
             /\ \A f \in Features : progress'[f] # progress[f] => RunsUnderWay(f) # {}
       /\ toastUploadFirst' # toastUploadFirst =>
             /\ uploadedVideoId = Null
             /\ UNCHANGED <<processRequests, rampTimers, subtitleRuns, progress>>]_vars

\* A trigger was called after the video was replaced, while a ramp started for
\* the previous video is under way.
C13_TriggerCalledWithoutVideo ==
    /\ toastUploadFirst
    /\ uploadedVideoId = Null
    /\ selectedFile = 2
    /\ \E t \in rampTimers : t.progress > 0

\* The generation runs that publish their track in this step.
RunsPublished == {r \in subtitleRuns \ subtitleRuns' : r.stage + 1 = Len(stages)}

\* C16: in the step that replaces the video the track and the caption are
\* reset, and a track is only ever stored by a generation that was started for
\* the video the page holds now: none started for a replaced video stores one.
C16_NoTrackOfReplacedVideo ==
    [][/\ selectedFile' # selectedFile =>
             subtitleData' = NoSubtitles /\ currentSubtitle' = ""
       /\ (subtitleData' # NoSubtitles /\ RunsPublished # {}) =>
             \A r \in RunsPublished : r.videoId = selectedFile]_vars

\* activeCue(track, time): the text of the first cue in order with
\* start <= time <= end, empty when there is none.
activeCue(cues, time) ==
    LET matching == {i \in DOMAIN cues : cues[i].start <= time /\ time <= cues[i].end}
    IN  IF matching = {} THEN ""
        ELSE cues[CHOOSE i \in matching : \A j \in matching : i <= j].text

\* C18: the caption a time update resolves is the text of the first cue in
\* order with start <= t <= end (t = end still resolves it) and is empty when
\* no cue matches, as in the gap between two cues.
C18_LookupIsFirstMatchingCue ==
    [][currentSubtitle' = activeCue(subtitleData.cues, currentTime')]_vars

\* The player is at the end of the first cue, which the second cue overlaps:
\* the caption is the first cue's.
C18_EndOfFirstOverlappedCue ==
    /\ Len(subtitleData.cues) = 2
    /\ currentTime > 0
    /\ subtitleData.cues[1].end = currentTime
    /\ subtitleData.cues[2].start < currentTime
    /\ subtitleData.cues[2].end > currentTime
    /\ subtitleData.cues[1].text # subtitleData.cues[2].text
    /\ currentSubtitle = subtitleData.cues[1].text

\* C19: showSubtitles gates the display only: after every time update with a
\* track present the caption is activeCue(track, time), shown or hidden.
C19_LookupIgnoresShowSubtitles ==
    [][(currentTime' # currentTime /\ subtitleData # NoSubtitles) =>
          currentSubtitle' = activeCue(subtitleData.cues, currentTime')]_vars

\* HH:MM:SS,mmm of a time in milliseconds: hours, minutes and seconds on two
\* digits, milliseconds on three.
TwoDigits(n) == IF n < 10 THEN <<"0">> \o toString(n) ELSE toString(n)
ThreeDigits(n) == IF n < 100 THEN <<"0">> \o TwoDigits(n) ELSE toString(n)
Timestamp(ms) ==
    TwoDigits(ms \div 3600000) \o <<":">> \o TwoDigits((ms \div 60000) % 60) \o <<":">>
        \o TwoDigits((ms \div 1000) % 60) \o <<",">> \o ThreeDigits(ms % 1000)

\* encodeSRT(cues): for each cue in order its 1-based index, the line
\* `start --> end` and the text, each ended by a newline; one newline more (a
\* blank line) between two cues.
RECURSIVE encodeFrom(_, _)
encodeFrom(cues, i) ==
    IF i > Len(cues) THEN <<>>
    ELSE toString(i) \o <<"\n">>
             \o Timestamp(cues[i].start) \o <<" --> ">> \o Timestamp(cues[i].end)
             \o <<"\n", cues[i].text, "\n">>
             \o (IF i < Len(cues) THEN <<"\n">> ELSE <<>>)
             \o encodeFrom(cues, i + 1)
encodeSRT(cues) == encodeFrom(cues, 1)

\* C20: whenever a track is stored, its srt is encodeSRT of its cues.
C20_SrtIsEncodedCues ==
    subtitleData # NoSubtitles => subtitleData.srt = encodeSRT(subtitleData.cues)

\* A generated track is stored for the second video.
C20_TrackStored ==
    /\ selectedFile = 2
    /\ subtitleData.language = "ru-ur"
    /\ Len(subtitleData.cues) = 5
    /\ subtitleData.cues[5].end = 5 * CueSpacing - CueGap

\* ------------------------------------------------------------------- C26
\* C26: while the view is mounted and a file has been selected, the object
\* URL in videoSrc is live, whatever the upload answered, and it is the only
\* live one: every handle a later selection replaced has been revoked (after
\* the unmount none is live).
C26_OnePreviewHandleLive ==
    /\ Cardinality(liveUrls) <= 1
    /\ (mounted /\ selectedFile # Null) => liveUrls = {videoSrc}
    /\ (mounted /\ selectedFile = Null) => liveUrls = {}

\* A second file was selected after the upload of the first failed, and its
\* own upload has been answered.
C26_HandleReplaced ==
    /\ mounted /\ selectedFile = 2 /\ videoSrc = 2
    /\ consoleLogs.error >= 1
    /\ uploadRequests = {}
    /\ 1 \notin liveUrls

\* ------------------------------------------------------------------- C24
\* A getVideoStatus request settled in this step without its response being
\* stored: it was rejected.
StatusRejectedStep(r) ==
    /\ r \in statusRequests \ statusRequests'
    /\ videoData'.req # r.req

\* C24: when a getVideoStatus request is rejected, every poll interval stays
\* armed (and the ref names the same one), videoData is unchanged and one
\* error entry is logged; and a tick of an interval that is armed, after a
\* rejection as before it, sends one new request for the job of an interval.
C24_RejectedFetchKeepsPolling ==
    [][/\ \A r \in statusRequests :
             StatusRejectedStep(r) =>
                 /\ pollTimers' = pollTimers
                 /\ statusCheckIntervalRef' = statusCheckIntervalRef
                 /\ videoData' = videoData
                 /\ consoleLogs' = [consoleLogs EXCEPT !.error = @ + 1]
       /\ (consoleLogs.error >= 1 /\ nextReq' # nextReq /\ pollTimers' = pollTimers) =>
             \E t \in pollTimers :
                 \E r \in statusRequests' \ statusRequests :
                     /\ r.videoId = t.videoId /\ r.req = nextReq
                     /\ statusRequests' = statusRequests \cup {r}]_vars

\* The first fetch of the only poller was rejected (the upload was answered
\* with an id, no response was stored, one error is logged), the interval is
\* armed and its tick has sent the next request.
C24_TickAfterRejection ==
    /\ selectedFile = 1 /\ uploadedVideoId = 1
    /\ videoData = NoData
    /\ consoleLogs.error = 1
    /\ pollTimers = {[h |-> 1, videoId |-> 1]}
    /\ \E r \in statusRequests : r.req = 2 /\ r.videoId = 1

\* ------------------------------------------------------------------- C29
\* C29: the step that arms a poll interval (startStatusCheck) sends the first
\* request for its job itself, exactly one, before any tick of it; every
\* other request is sent one at a time by a step that arms nothing, for the
\* job of an interval that is armed: by a tick of it.
C29_FirstFetchImmediateThenTicks ==
    [][/\ \A t \in pollTimers' \ pollTimers :
             /\ pollTimers' = pollTimers \cup {t}
             /\ \E r \in statusRequests' \ statusRequests :
                    /\ r.videoId = t.videoId
                    /\ statusRequests' = statusRequests \cup {r}
       /\ (statusRequests' \ statusRequests # {} /\ pollTimers' \ pollTimers = {}) =>
             /\ pollTimers' = pollTimers
             /\ \E r \in statusRequests' \ statusRequests :
                    /\ statusRequests' = statusRequests \cup {r}
                    /\ \E t \in pollTimers : t.videoId = r.videoId]_vars

\* A poller whose first request has been answered and whose tick has sent
\* the second one.
C29_FetchByTick ==
    /\ selectedFile = 1
    /\ consoleLogs.error = 0
    /\ videoData # NoData /\ videoData.req = 1
    /\ pollTimers = {[h |-> 1, videoId |-> 1]}
    /\ \E r \in statusRequests : r.req = 2 /\ r.videoId = 1

\* ------------------------------------------------------------------- C30
\* C30: once the terminal status of the current job has been stored and
\* nothing is in flight any more (no upload, no status request, and the ref
\* names no interval, so that no step of the page can cancel one), no poll
\* interval is armed.
C30_EveryPollerCancelled ==
    (/\ uploadedVideoId # Null
     /\ videoData # NoData
     /\ videoData.id = uploadedVideoId
     /\ videoData.status \in Terminal
     /\ uploadRequests = {}
     /\ statusRequests = {}
     /\ statusCheckIntervalRef = Null) => pollTimers = {}

\* ------------------------------------------------------------------- C25
\* C25: the tick with which a ramp ends is one that takes its progress to 100
\* or beyond; in that step the ramp's interval is cleared, the ProgressState
\* of its feature gets 100 and the success message, and the status poller is
\* started once for the job id of the run (one interval armed, one request
\* sent).  A tick that leaves the ramp below 100 keeps its interval, writes a
\* percentage below 100 without the success message, and starts no poller.
C25_CompletionOnlyAt100 ==
    [][\A t \in rampTimers :
          LET after == {u \in rampTimers' : u.run = t.run} IN
          IF after = {}
             THEN /\ \E inc \in RampIncrements : t.progress + inc >= 100
                  /\ progress'[t.feature].percentage = 100
                  /\ progress'[t.feature].status = successMessage(t.feature)
                  /\ \E newTimer \in pollTimers' \ pollTimers :
                         /\ newTimer.videoId = t.videoId
                         /\ pollTimers' = pollTimers \cup {newTimer}
                  /\ \E r \in statusRequests' \ statusRequests :
                         /\ r.videoId = t.videoId
                         /\ statusRequests' = statusRequests \cup {r}
             ELSE \A u \in after :
                     u # t => /\ u.progress < 100
                              /\ progress'[t.feature].percentage = u.progress
                              /\ progress'[t.feature].status # successMessage(t.feature)
                              /\ pollTimers' = pollTimers
                              /\ statusRequests' = statusRequests]_vars

\* The only run has ended: its feature shows 100 and the success message, no
\* ramp is armed, and the poller it started is armed with its first request
\* in flight.
C25_PollerRestartedAt100 ==
    /\ rampTimers = {} /\ processRequests = {} /\ nextRun = 2
    /\ progress["audio"].percentage = 100
    /\ progress["audio"].status = successMessage("audio")
    /\ pollTimers = {[h |-> 2, videoId |-> 1]}
    /\ statusRequests = {[req |-> 3, videoId |-> 1, status |-> "completed"]}

\* ------------------------------------------------------------------- C22
\* C22: formatSRTTime of a time given to the millisecond is HH:MM:SS,mmm with
\* HH the whole hours (two digits at least, not wrapped from 100 hours on), MM
\* the minutes within the hour, SS the seconds within the minute and mmm the
\* milliseconds within the second, zero-padded to 2, 2, 2 and 3 digits.
C22_TimestampOfEveryMillisecond ==
    srtTime.text # <<>> => srtTime.text = Timestamp(srtTime.seconds)

\* ------------------------------------------------------------------- C23
\* C23: a generated track has exactly 5 cues; cue i (counted from 0) starts at
\* 4 i seconds, ends at 4 (i + 1) - 0.5 seconds and carries the i-th canned
\* line of the track's language when it has canned lines; for 'en' the first
\* cue is {0, 3.5, 'Welcome to this video demonstration.'}.
C23_FiveCuesFourSecondsApart ==
    subtitleData # NoSubtitles =>
        /\ Len(subtitleData.cues) = 5
        /\ \A i \in 0..4 :
              /\ subtitleData.cues[i + 1].start = 4000 * i
              /\ subtitleData.cues[i + 1].end = 4000 * (i + 1) - 500
              /\ subtitleData.language \in TextLanguages =>
                    subtitleData.cues[i + 1].text = subtitleTexts(subtitleData.language)[i + 1]
        /\ subtitleData.language = "en" =>
              subtitleData.cues[1] = [start |-> 0, end |-> 3500,
                                      text |-> "Welcome to this video demonstration."]

\* The English track is stored.
C23_EnglishTrackStored ==
    /\ subtitleData.language = "en"
    /\ Len(subtitleData.cues) = 5
    /\ subtitleData.cues[5].text = "Supporting multiple languages and styles."
    /\ ~isGeneratingSubtitles

lineBreaks(str) == {i \in 1..Len(str) : str[i] = "\n"}
lineStart(str, n) ==
    IF n = 1 THEN 1
    ELSE 1 + CHOOSE i \in lineBreaks(str) :
                 Cardinality({b \in lineBreaks(str) : b < i}) = n - 2
lineEnd(str, n) ==
    IF n = Cardinality(lineBreaks(str)) + 1 THEN Len(str)
    ELSE (CHOOSE i \in lineBreaks(str) :
              Cardinality({b \in lineBreaks(str) : b < i}) = n - 1) - 1
splitLines(str) ==
    [n \in 1..(Cardinality(lineBreaks(str)) + 1) |->
        SubSeq(str, lineStart(str, n), lineEnd(str, n))]

\* The number a sequence of digits writes.
RECURSIVE parseInt(_)
parseInt(digits) ==
    IF Len(digits) = 0 THEN 0
    ELSE 10 * parseInt(SubSeq(digits, 1, Len(digits) - 1))
             + (CHOOSE d \in 0..9 : Digits[d + 1] = digits[Len(digits)])

\* The position of the n-th occurrence of a piece in a line.
position(line, piece, n) ==
    CHOOSE i \in 1..Len(line) :
        /\ line[i] = piece
        /\ Cardinality({j \in 1..(i - 1) : line[j] = piece}) = n - 1

\* The milliseconds `H:M:S,m` writes.
parseTime(stamp) ==
    LET c1 == position(stamp, ":", 1)
        c2 == position(stamp, ":", 2)
        k == position(stamp, ",", 1)
    IN  ((parseInt(SubSeq(stamp, 1, c1 - 1)) * 60
            + parseInt(SubSeq(stamp, c1 + 1, c2 - 1))) * 60
            + parseInt(SubSeq(stamp, c2 + 1, k - 1))) * 1000
        + parseInt(SubSeq(stamp, k + 1, Len(stamp)))

\* The cues of an SRT text: a block begins at a non-empty line that is the
\* first line or follows an empty one; its second line holds the times around
\* the arrow, its third line is the text.
blockStarts(lines) ==
    {n \in 1..Len(lines) : lines[n] # <<>> /\ (n = 1 \/ lines[n - 1] = <<>>)}
decodeSRT(str) ==
    LET lines == splitLines(str)
        starts == blockStarts(lines)
        nth(k) == CHOOSE n \in starts : Cardinality({m \in starts : m < n}) = k - 1
        arrow(n) == position(lines[n + 1], " --> ", 1)
    IN  [k \in 1..Cardinality(starts) |->
            [start |-> parseTime(SubSeq(lines[nth(k) + 1], 1, arrow(nth(k)) - 1)),
             end |-> parseTime(SubSeq(lines[nth(k) + 1], arrow(nth(k)) + 1,
                                      Len(lines[nth(k) + 1]))),
             text |-> lines[nth(k) + 2][1]]]

\* C21: reading the SRT text of a stored track back gives its cues: as many,
\* in the same order, with the same start and end to the millisecond and the
\* same text.
C21_SrtReadsBackAsCues ==
    subtitleData # NoSubtitles => decodeSRT(subtitleData.srt) = subtitleData.cues

\* The German track is stored, with its SRT text.
C21_GermanTrackStored ==
    /\ subtitleData.language = "de"
    /\ Len(subtitleData.cues) = 5
    /\ Len(subtitleData.srt) > 0

\* ------------------------------------------------------------------- C28
\* C28: the SRT text of a stored track of n cues has one block per cue, in
\* order: the line k, the line `start --> end` of the k-th cue and the line
\* of its text; one empty line stands between a block and the next, and the
\* text ends with the newline of the last block.
C28_OneBlockPerCue ==
    subtitleData # NoSubtitles =>
        LET lines == splitLines(subtitleData.srt)
            n == Len(subtitleData.cues)
        IN  /\ Len(lines) = 4 * n
            /\ Cardinality(blockStarts(lines)) = n
            /\ \A k \in 1..n :
                  /\ lines[4 * k - 3] = toString(k)
                  /\ lines[4 * k - 2] = Timestamp(subtitleData.cues[k].start)
                                            \o <<" --> ">>
                                            \o Timestamp(subtitleData.cues[k].end)
                  /\ lines[4 * k - 1] = <<subtitleData.cues[k].text>>
                  /\ lines[4 * k] = <<>>

\* The French track is stored: five blocks on twenty lines.
C28_FrenchTrackStored ==
    /\ subtitleData.language = "fr"
    /\ Len(splitLines(subtitleData.srt)) = 20

\* ------------------------------------------------------------------- C32
\* C32: every cue of a stored track has 0 <= start < end, and each cue ends
\* before the next one starts.
C32_CuesChronological ==
    subtitleData # NoSubtitles =>
        /\ \A i \in 1..Len(subtitleData.cues) :
              /\ 0 <= subtitleData.cues[i].start
              /\ subtitleData.cues[i].start < subtitleData.cues[i].end
        /\ \A i \in 1..(Len(subtitleData.cues) - 1) :
              subtitleData.cues[i].end < subtitleData.cues[i + 1].start

\* The Spanish track is stored, its second cue after the end of the first.
C32_SpanishTrackStored ==
    /\ subtitleData.language = "es"
    /\ Len(subtitleData.cues) = 5
    /\ subtitleData.cues[1].end < subtitleData.cues[2].start

\* ------------------------------------------------------------------- C33
\* C33: at most one processing ramp is armed per feature.
C33_OneRampPerFeature ==
    \A t, u \in rampTimers : t.feature = u.feature => t = u

\* ------------------------------------------------------------------- C36
\* C36: a non-null uploadedVideoId is the id the backend gave the upload of
\* the currently selected file (the upload of the k-th file gets the id k).
C36_IdOfSelectedFile ==
    uploadedVideoId # Null => uploadedVideoId = selectedFile

\* ------------------------------------------------------------------- C37
\* C37: a non-null videoData is a status response for the current job.
C37_VideoDataOfCurrentJob ==
    videoData # NoData => videoData.id = uploadedVideoId

\* ------------------------------------------------------------------- C38
\* C38: isUploading is true exactly while an upload request is in flight.
C38_UploadingWhileInFlight ==
    isUploading <=> uploadRequests # {}

\* ------------------------------------------------------------------- C40
\* C40: whenever the overlay is displayed (showSubtitles and a non-empty
\* currentSubtitle), currentSubtitle is the text of the cue of the stored
\* track that is active at the current playback time.
C40_OverlayShowsActiveCue ==
    (showSubtitles /\ currentSubtitle # "") =>
        /\ subtitleData # NoSubtitles
        /\ currentSubtitle = activeCue(subtitleData.cues, currentTime)

\* ------------------------------------------------------------------- C35
\* C35: a run of generateAdvancedSubtitles writes the percentages 0, 20, 40,
\* 60, 80, 100 of the subtitles ProgressState in that order (it starts at 0
\* and every later change adds 20); a track is stored only by the step that
\* writes 100, and isGeneratingSubtitles is true from the start of the run up
\* to that step and false after it.
C35_StagesThenTrack ==
    [][/\ progress'["subtitles"].percentage # progress["subtitles"].percentage =>
             \/ /\ progress'["subtitles"].percentage = 0
                /\ ~isGeneratingSubtitles /\ isGeneratingSubtitles'
             \/ /\ progress'["subtitles"].percentage = progress["subtitles"].percentage + 20
                /\ isGeneratingSubtitles
       /\ (subtitleData' # subtitleData /\ subtitleData' # NoSubtitles) =>
             /\ progress["subtitles"].percentage = 80
             /\ progress'["subtitles"].percentage = 100
             /\ isGeneratingSubtitles /\ ~isGeneratingSubtitles'
       /\ isGeneratingSubtitles' # isGeneratingSubtitles =>
             progress'["subtitles"].percentage = IF isGeneratingSubtitles' THEN 0 ELSE 100
       /\ (isGeneratingSubtitles /\ ~isGeneratingSubtitles') =>
             subtitleData' # NoSubtitles]_vars

\* A run has gone through its stages and stored the Portuguese track.
C35_RunFinished ==
    /\ ~isGeneratingSubtitles
    /\ subtitleRuns = {}
    /\ subtitleData.language = "pt"
    /\ progress["subtitles"] = [visible |-> TRUE, percentage |-> 100,
                                status |-> "Subtitles generated successfully!"]

\* ------------------------------------------------------------------- C34
\* C34: the file downloadSubtitles saved holds the SRT text of a track and is
\* named with the language code of that track.  (The step that saves it
\* leaves subtitleData as it is.)
C34_FileNamedByTrackLanguage ==
    [][downloadedFile' # downloadedFile =>
          /\ downloadedFile'.srt = subtitleData.srt
          /\ downloadedFile'.language = subtitleData.language]_vars

\* ------------------------------------------------------------------- C39
\* C39: generatedThumbnail is non-null only when the thumbnail run has
\* completed: the thumbnail ProgressState is at 100 with the success message.
C39_ThumbnailAfterCompletion ==
    generatedThumbnail # Null =>
        /\ progress["thumbnail"].percentage = 100
        /\ progress["thumbnail"].status = successMessage("thumbnail")

\* ------------------------------------------------------------------- C31
\* C31: every run whose trigger was accepted (its ramp is armed) eventually
\* completes: its ramp is cancelled, with 100 written to the ProgressState of
\* its feature.
C31_AcceptedRunCompletes ==
    \A n \in 1..MaxProcRuns :
        (\E t \in rampTimers : t.run = n)
            ~> (/\ \A t \in rampTimers : t.run # n
                /\ progress["audio"].percentage = 100
                /\ progress["audio"].status = successMessage("audio"))

\* Two runs were accepted and both have completed, each having sent its
\* status request.
C31_BothRunsCompleted ==
    /\ nextRun = 3
    /\ rampTimers = {} /\ processRequests = {}
    /\ consoleLogs.error = 0
    /\ Cardinality(statusRequests) = 2
    /\ progress["audio"].percentage = 100


====
